---- MODULE Spec2Model ----
(***************************************************************************)
(* Build hook of the easy-i18n editor extension: the pipeline that narrows *)
(* the localization file to the default language, moves the image assets   *)
(* used only by other languages into a staging directory before the build, *)
(* and puts everything back after it.                                      *)
(*                                                                         *)
(* A text is a sequence of one-character strings.  A dataset (I18nData) is *)
(* a record [languages, defaultLanguage, items]; languages is a sequence   *)
(* of language codes, items is the sequence of the object's entries in     *)
(* iteration order, each [key, type, value], and value is the sequence of  *)
(* the entries [lang, text] of the per-language object.                    *)
(***************************************************************************)
EXTENDS Naturals, Sequences, FiniteSets

VARIABLES
    loaded,          \* the extension process is running and load() has run
    cfgSet,          \* the export-path configuration key holds a value
    orig,            \* the project before the pipeline touched it
    i18nFile,        \* content of the live localization file
    backupFile,      \* content of <staging>/i18n-data-backup.json
    ledgerFile,      \* content of <pluginTemp>/failed_resources.json
    stagingDir,      \* the staging directory <pluginTemp>/moved-assets exists
    targetDir,       \* the directory that holds the live asset files exists
    assets,          \* live asset files: uuid -> [file, meta]
    staged,          \* staged copies:    uuid -> [file, meta]
    assetDb,         \* what the editor's asset database knows of each uuid
    tempMovedFiles,  \* module variable tempMovedFiles
    backupI18nInfo,  \* module variable backupI18nInfo
    beforeRun,       \* the running onBeforeBuild: what moveResourcesToTemp has left
    runs,            \* restoreMovedResources invocations that are suspended
    hooks,           \* number of hooks invoked so far
    restarts,        \* number of times the process has ended
    faults,          \* number of I/O failures and of changes from outside so far
    escaped,         \* an exception left a hook, or a rejection was unhandled
    last,            \* what the last step did
    cycle,           \* how far the first build cycle got while nothing went wrong
    atExit,          \* the records in memory and in the ledger when the process ended
    pureData,        \* dataset handed to the pure functions
    pureOut          \* their results

vars ==
    <<loaded, cfgSet, orig, i18nFile, backupFile, ledgerFile, stagingDir, targetDir,
      assets, staged, assetDb, tempMovedFiles, backupI18nInfo, beforeRun, runs,
      hooks, restarts, faults, escaped, last, cycle, atExit,
      pureData, pureOut>>

\* what no step of the pipeline changes
fixed ==
    <<cfgSet, orig, pureData, pureOut>>

\* the files of the staging directory and the ledger
stagingVars ==
    <<backupFile, ledgerFile, stagingDir, staged>>

\* the live assets
assetVars ==
    <<targetDir, assets, assetDb>>

\* the module variables and the suspended calls
memoryVars ==
    <<tempMovedFiles, backupI18nInfo, beforeRun, runs>>

-----------------------------------------------------------------------------
(* Texts and identifiers *)

\* text.split(sep)[0]: the part of the text before the first sep
RECURSIVE BeforeFirst(_, _)
BeforeFirst(text, sep) ==
    IF text = <<>> \/ Head(text) = sep
    THEN <<>>
    ELSE <<Head(text)>> \o BeforeFirst(Tail(text), sep)

\* the part of the text after the first sep (empty when there is none)
RECURSIVE AfterFirst(_, _)
AfterFirst(text, sep) ==
    IF text = <<>>
    THEN <<>>
    ELSE IF Head(text) = sep THEN Tail(text) ELSE AfterFirst(Tail(text), sep)

\* text.includes(sep)
Includes(text, sep) ==
    \E i \in 1..Len(text) : text[i] = sep

\* parseResourceUUIDs: the object it returns, as a function on the keys it has
parseResourceUUIDs(text) ==
    IF text = <<>>
    THEN [k \in {} |-> <<>>]
    ELSE LET cleanText == BeforeFirst(text, "@")
         IN  IF Includes(cleanText, ":")
             THEN [k \in {"atlasUuid", "spriteUuid"} |->
                     IF k = "atlasUuid"
                     THEN BeforeFirst(cleanText, ":")
                     ELSE BeforeFirst(AfterFirst(cleanText, ":"), ":")]
             ELSE [k \in {"spriteUuid"} |-> cleanText]

\* if (obj.k): the key is there and its string is not empty
Truthy(obj, k) ==
    k \in DOMAIN obj /\ obj[k] # <<>>

-----------------------------------------------------------------------------
(* Datasets *)

\* a variant of Lookup that takes the first entry, whatever its language
LookupFirst(value, lang) ==
    IF value = <<>> THEN <<>> ELSE <<Head(value).text>>

\* item.value[lang]: the entry's text, wrapped in a sequence; <<>> is undefined
RECURSIVE Lookup(_, _)
Lookup(value, lang) ==
    IF value = <<>>
    THEN <<>>
    ELSE IF Head(value).lang = lang
         THEN <<Head(value).text>>
         ELSE Lookup(Tail(value), lang)

\* the members of a Set, which keeps them in insertion order
Members(set) ==
    {set[i] : i \in 1..Len(set)}

\* Set.prototype.add
SetAdd(set, x) ==
    IF x \in Members(set) THEN set ELSE Append(set, x)

\* if (atlasUuid) targetSet.add(atlasUuid); if (spriteUuid) targetSet.add(spriteUuid)
AddIds(targetSet, text) ==
    LET info == parseResourceUUIDs(text)
        withAtlas == IF Truthy(info, "atlasUuid")
                     THEN SetAdd(targetSet, info["atlasUuid"])
                     ELSE targetSet
    IN  IF Truthy(info, "spriteUuid")
        THEN SetAdd(withAtlas, info["spriteUuid"])
        ELSE withAtlas

\* Object.entries(item.value).forEach of analyzeResourceUsage, for one item
RECURSIVE ScanValue(_, _, _)
ScanValue(value, defaultLanguage, acc) ==
    IF value = <<>>
    THEN acc
    ELSE LET next == IF Head(value).lang = defaultLanguage
                     THEN [acc EXCEPT !.defaultResources = AddIds(@, Head(value).text)]
                     ELSE [acc EXCEPT !.nonDefaultResources = AddIds(@, Head(value).text)]
         IN  ScanValue(Tail(value), defaultLanguage, next)

\* the filter of analyzeResourceUsage: only sprite items are scanned
IsScanned(item) ==
    item.type = "sprite"

\* Object.values(items).filter(sprite).forEach of analyzeResourceUsage
RECURSIVE ScanItems(_, _, _)
ScanItems(items, defaultLanguage, acc) ==
    IF items = <<>>
    THEN acc
    ELSE ScanItems(Tail(items), defaultLanguage,
                   IF IsScanned(Head(items))
                   THEN ScanValue(Head(items).value, defaultLanguage, acc)
                   ELSE acc)

\* a variant of ToMove without the comparison with defaultResources
ToMoveAll(defaultResources, nonDefaultResources) ==
    nonDefaultResources

\* nonDefaultResources.forEach: keep what defaultResources does not have
ToMove(defaultResources, nonDefaultResources) ==
    SelectSeq(nonDefaultResources, LAMBDA uuid : uuid \notin Members(defaultResources))

analyzeResourceUsage(i18nData) ==
    LET scan == ScanItems(i18nData.items, i18nData.defaultLanguage,
                          [defaultResources |-> <<>>, nonDefaultResources |-> <<>>])
    IN  [defaultResources |-> scan.defaultResources,
         nonDefaultResources |-> scan.nonDefaultResources,
         resourcesToMove |-> ToMove(scan.defaultResources, scan.nonDefaultResources)]

\* Object.entries(items).forEach of createCleanedData
RECURSIVE CleanItems(_, _)
CleanItems(items, defaultLanguage) ==
    IF items = <<>>
    THEN <<>>
    ELSE LET item == Head(items)
             defaultValue == Lookup(item.value, defaultLanguage)
             rest == CleanItems(Tail(items), defaultLanguage)
         IN  IF defaultValue # <<>>
             THEN <<[key |-> item.key, type |-> item.type,
                     value |-> <<[lang |-> defaultLanguage, text |-> defaultValue[1]]>>]>>
                  \o rest
             ELSE rest

\* a variant of createCleanedData that narrows nothing
createCleanedDataKeepAll(i18nData) ==
    i18nData

\* a variant of createCleanedData that starts at the second item
createCleanedDataDropFirst(i18nData) ==
    [languages |-> SelectSeq(i18nData.languages,
                             LAMBDA code : code = i18nData.defaultLanguage),
     defaultLanguage |-> i18nData.defaultLanguage,
     items |-> CleanItems(IF i18nData.items = <<>> THEN <<>> ELSE Tail(i18nData.items),
                          i18nData.defaultLanguage)]

createCleanedData(i18nData) ==
    [languages |-> SelectSeq(i18nData.languages,
                             LAMBDA code : code = i18nData.defaultLanguage),
     defaultLanguage |-> i18nData.defaultLanguage,
     items |-> CleanItems(i18nData.items, i18nData.defaultLanguage)]

-----------------------------------------------------------------------------
(* The project the pipeline runs in *)

\* bounds of the model
MaxHooks ==
    3
MaxRestarts ==
    1
MaxFaults ==
    1

\* const batchSize = 10
batchSize ==
    10

\* the image assets of the project, by uuid
AssetIds ==
    {<<"A">>, <<"B">>}

Absent ==
    <<>>
FileContent(uuid) ==
    <<"file">> \o uuid
MetaContent(uuid) ==
    <<"meta">> \o uuid

\* JSON.parse's fallback {}: no languages, no defaultLanguage, no items
NoData ==
    [languages |-> <<>>, defaultLanguage |-> "", items |-> <<>>]

NoFile ==
    [kind |-> "none", fmt |-> "", data |-> NoData]

\* JSON.stringify(data, null, 2)
Stringify(data) ==
    [kind |-> "json", fmt |-> "pretty", data |-> data]

\* util.safeJsonParse(content, {})
safeJsonParse(content) ==
    IF content.kind = "json" THEN content.data ELSE NoData

\* a variant of FormatError that accepts every content
NeverFormatError(i18nData) ==
    FALSE

\* !i18nData?.languages || !i18nData.defaultLanguage || !i18nData.items
FormatError(i18nData) ==
    i18nData.defaultLanguage = ""

NoBackup ==
    [set |-> FALSE, originalData |-> NoData]

\* file.getPluginTempDir(), as a path
pluginTempDir ==
    <<"temp">>

\* path.join(pluginTempDir, PLUGIN.MOVED_ASSETS_DIR): the staging directory
tempAssetsDir ==
    pluginTempDir \o <<"moved-assets">>

\* path.join(tempAssetsDir, PLUGIN.BACKUP_FILENAME)
backupPath ==
    tempAssetsDir \o <<"i18n-data-backup.json">>

\* path.join(pluginTempDir, 'failed_resources.json')
failedResourcesFile ==
    pluginTempDir \o <<"failed_resources.json">>

\* path.dirname
Dirname(path) ==
    SubSeq(path, 1, Len(path) - 1)

NoLedger ==
    [exists |-> FALSE, records |-> <<>>, path |-> <<>>]

Entry(lang, text) ==
    <<[lang |-> lang, text |-> text]>>

\* a dataset of two languages: one sprite item and one text item
MkData(enText, frText) ==
    [languages |-> <<"en", "fr">>,
     defaultLanguage |-> "en",
     items |-> <<[key |-> "logo", type |-> "sprite",
                  value |-> (IF enText = <<>> THEN <<>> ELSE Entry("en", enText[1]))
                            \o Entry("fr", frText)],
                 [key |-> "title", type |-> "text",
                  value |-> Entry("en", <<"A">>) \o Entry("fr", <<"B">>)]>>]

\* the datasets the pipeline is run on; NoData is the file "{}"
PipelineData ==
    {NoData,
     MkData(<<>>, <<"A", ":", "B">>),
     MkData(<<<<"A">>>>, <<"A", ":", "B", "@", "s">>),
     MkData(<<<<"A">>>>, <<"A">>),
     MkData(<<>>, <<"B">>)}

-----------------------------------------------------------------------------
(* I/O operations that can fail.  A step is given the set F of the          *)
(* operations that fail in it; an operation is <<name, uuid>>.              *)

P(name) ==
    <<name, <<>>>>

\* the operations onBeforeBuild performs on the way to the narrowed file
BeforePoints ==
    IF ~cfgSet \/ i18nFile.kind = "none"
    THEN {}
    ELSE {P("queryPath"), P("readFile")}
         \cup (IF i18nFile.kind = "json" /\ i18nFile.data.defaultLanguage # ""
               THEN {P("copyBackup"), P("writeFile")}
                    \cup (IF stagingDir THEN {} ELSE {P("mkdirStaging")})
               ELSE {})

\* the operations moveResourcesToTemp performs for one identifier
EvictPoints(uuid) ==
    IF uuid \notin DOMAIN assets
    THEN {}
    ELSE IF assetDb[uuid] = "none" \/ assets[uuid].file = Absent
    THEN {}
    ELSE {<<"queryAssetInfo", uuid>>, <<"copy", uuid>>}
         \cup (IF assetDb[uuid] = "url" THEN {<<"deleteAsset", uuid>>}
               ELSE {<<"queryPath", uuid>>})
         \cup (IF assets[uuid].meta # Absent THEN {<<"copyMeta", uuid>>} ELSE {})

\* the operations a continuation may perform
AllContinuationPoints ==
    {P("writeLedger"), P("rm")} \cup {<<"unlink", u>> : u \in DOMAIN staged}

\* the operations the continuation performs when tempMovedFiles = list
ContinuationPoints(origin, list) ==
    (IF origin = "onAfterBuild" /\ list # <<>> THEN {P("writeLedger")} ELSE {})
    \cup (IF ~stagingDir THEN {}
          ELSE IF origin = "unload" \/ list = <<>> THEN {P("rm")}
          ELSE {<<"unlink", u>> : u \in {v \in DOMAIN staged :
                    /\ staged[v].file # Absent
                    /\ \A i \in 1..Len(list) : list[i].uuid # v}})

Min(a, b) ==
    IF a < b THEN a ELSE b

\* a variant of FirstBatch that takes the whole queue
WholeQueue(queue) ==
    queue

\* the first batch of a queue: resourcesToRestore.splice(0, batchSize)
FirstBatch(queue) ==
    SubSeq(queue, 1, Min(batchSize, Len(queue)))

\* what the splice leaves in the queue
AfterBatch(queue) ==
    SubSeq(queue, Min(batchSize, Len(queue)) + 1, Len(queue))

\* the operations of the tasks of one batch of restoreMovedResources
TaskPoints(batch) ==
    UNION {
       (IF staged[batch[i].uuid].file # Absent
        THEN {<<"copy", batch[i].uuid>>}
             \cup (IF targetDir THEN {} ELSE {<<"mkdir", batch[i].uuid>>})
             \cup (IF batch[i].tempMetaPath /\ staged[batch[i].uuid].meta # Absent
                   THEN {<<"copyMeta", batch[i].uuid>>} ELSE {})
        ELSE {}) : i \in 1..Len(batch)}

\* the operations of restoreI18nFile and of the first batch of restoreMovedResources
RestorePoints ==
    (IF backupI18nInfo.set
     THEN IF backupFile.kind # "none" THEN {P("copyI18n")} ELSE {P("writeI18n")}
     ELSE {})
    \cup TaskPoints(FirstBatch(tempMovedFiles))

\* the subsets of points with at most k members
RECURSIVE UpTo(_, _)
UpTo(points, k) ==
    IF k = 0
    THEN {{}}
    ELSE LET less == UpTo(points, k - 1)
         IN  less \cup {S \cup {p} : S \in less, p \in points}

\* the sets of operations that may fail in one step, within the budget
FaultSets(points) ==
    UpTo(points, MaxFaults - faults)

\* what a step reports in the variable last: the operation, its outcome, the
\* records a restoration processed with the result of each, whether a
\* restoration and its continuation finished in the step, and the calls of
\* the step in the order they were made
Did(op, result, batch, results, done, calls) ==
    [op |-> op, result |-> result, batch |-> batch, results |-> results, done |-> done,
     calls |-> calls]

-----------------------------------------------------------------------------
(* try { ... } catch (error) { logger...(error) }: whether an exception      *)
(* thrown inside goes on to the caller                                      *)

\* a variant of a catch block that throws the exception again
Rethrow(thrown) ==
    thrown

\* onBeforeBuild, lines 485 and 540
onBeforeBuildCatch(thrown) ==
    FALSE

\* moveResourcesToTemp, lines 212 and 275, around the work on one identifier
moveResourcesCatch(thrown) ==
    FALSE

\* restoreI18nFile, lines 405 and 416
restoreI18nFileCatch(thrown) ==
    FALSE

\* the task of restoreMovedResources, lines 309 and 346
restoreTaskCatch(thrown) ==
    FALSE

\* the refresh request of restoreMovedResources, lines 388 and 393
refreshCatch(thrown) ==
    FALSE

\* the write of failed_resources.json, lines 555 and 561
ledgerCatch(thrown) ==
    FALSE

\* cleanupTempFolder, lines 426 and 459
cleanupTempFolderCatch(thrown) ==
    FALSE

\* the .catch() of the promise chain in onAfterBuild and in unload
promiseCatch(rejected) ==
    FALSE

\* onAfterBuild and unload, lines 546/572 and 578/594
hookCatch(thrown) ==
    FALSE

-----------------------------------------------------------------------------
(* Initial state: the module is freshly loaded, nothing is staged *)

PipelineInit ==
    /\ loaded = TRUE
    /\ cfgSet \in BOOLEAN
    /\ \/ \E d \in PipelineData :
             i18nFile = [kind |-> "json", fmt |-> "raw", data |-> d]
       \/ i18nFile = NoFile
    /\ backupFile = NoFile
    /\ ledgerFile = NoLedger
    /\ stagingDir = FALSE
    /\ targetDir = TRUE
    /\ \E b \in {"plain", "noMeta", "noUrl"} :
          /\ assets = [u \in AssetIds |->
                         [file |-> FileContent(u),
                          meta |-> IF u = <<"B">> /\ b = "noMeta"
                                   THEN Absent ELSE MetaContent(u)]]
          /\ assetDb = [u \in AssetIds |->
                          IF u = <<"B">> /\ b = "noUrl" THEN "nourl" ELSE "url"]
    /\ orig = [i18n |-> i18nFile, assets |-> assets]
    /\ staged = [u \in AssetIds |-> [file |-> Absent, meta |-> Absent]]
    /\ tempMovedFiles = <<>>
    /\ backupI18nInfo = NoBackup
    /\ beforeRun = [active |-> FALSE, todo |-> <<>>]
    /\ runs = <<>>
    /\ hooks = 0
    /\ restarts = 0
    /\ faults = 0
    /\ escaped = FALSE
    /\ last = Did("init", "", <<>>, <<>>, FALSE, <<>>)
    /\ cycle = "idle"
    /\ atExit = [pending |-> <<>>, ledger |-> <<>>]

PureIdle ==
    /\ pureData = NoData
    /\ pureOut = [analysis |-> <<>>, once |-> <<>>, twice |-> <<>>]

Init ==
    PipelineInit /\ PureIdle

-----------------------------------------------------------------------------
(* load and the end of the process *)

\* load: the reload of failed_resources.json is commented out; nothing is read
Load ==
    /\ ~loaded
    /\ loaded' = TRUE
    /\ last' = Did("load", "", <<>>, <<>>, FALSE, <<>>)
    /\ cycle' = "off"
    /\ UNCHANGED <<fixed, i18nFile, stagingVars, assetVars, memoryVars, hooks,
                   restarts, faults, escaped, atExit>>

\* the records of every suspended restoration's queue
RECURSIVE Queued(_)
Queued(rs) ==
    IF rs = <<>> THEN <<>> ELSE Head(rs).queue \o Queued(Tail(rs))

\* The process ends (editor closed or killed): the module variables and the
\* suspended continuations are gone, the disk stays as it is.
Crash ==
    /\ loaded
    /\ restarts < MaxRestarts
    /\ restarts' = restarts + 1
    /\ loaded' = FALSE
    /\ tempMovedFiles' = <<>>
    /\ backupI18nInfo' = NoBackup
    /\ beforeRun' = [active |-> FALSE, todo |-> <<>>]
    /\ runs' = <<>>
    /\ atExit' = [pending |-> tempMovedFiles \o Queued(runs),
                  ledger |-> ledgerFile.records]
    /\ last' = Did("restart", IF backupI18nInfo.set THEN "backup" ELSE "",
                   <<>>, <<>>, FALSE, <<>>)
    /\ cycle' = "off"
    /\ UNCHANGED <<fixed, i18nFile, stagingVars, assetVars, hooks, faults,
                   escaped>>

-----------------------------------------------------------------------------
(* onBeforeBuild *)

\* getI18nFilePath throws: no configured path, or the file is not in the asset db
NoI18nPath(F) ==
    ~cfgSet \/ P("queryPath") \in F \/ i18nFile.kind = "none"

\* file.readFile returns null
Unreadable(F) ==
    P("readFile") \in F

\* file.ensureDir(tempAssetsDir): whether the directory is there afterwards
ensureStagingDir(F) ==
    stagingDir \/ P("mkdirStaging") \notin F

\* fs.copyFileSync(i18nDataPath, backupPath) throws
BackupThrows(F) ==
    ~ensureStagingDir(F) \/ P("copyBackup") \in F

\* file.writeFile(i18nDataPath, cleanedContent): the content the file has then
WriteCleaned(i18nData, F) ==
    IF P("writeFile") \in F THEN i18nFile ELSE Stringify(createCleanedData(i18nData))

\* the hook up to the first await of moveResourcesToTemp
OnBeforeBuild(F) ==
    /\ loaded
    /\ ~beforeRun.active
    /\ hooks < MaxHooks
    /\ hooks' = hooks + 1
    /\ faults' = faults + Cardinality(F)
    /\ LET i18nData == safeJsonParse(i18nFile)
           early == IF NoI18nPath(F) THEN "noPath"
                    ELSE IF Unreadable(F) THEN "unreadable"
                    ELSE IF FormatError(i18nData) THEN "formatError"
                    ELSE ""
           analysis == analyzeResourceUsage(i18nData)
       IN  IF early # ""
           THEN /\ last' = Did("onBeforeBuild", early, <<>>, <<>>, FALSE, <<>>)
                /\ cycle' = "off"
                /\ UNCHANGED <<i18nFile, backupFile, stagingDir, backupI18nInfo,
                               beforeRun, escaped>>
           ELSE IF BackupThrows(F)
           THEN /\ stagingDir' = ensureStagingDir(F)
                /\ escaped' = (escaped \/ onBeforeBuildCatch(TRUE))
                /\ last' = Did("onBeforeBuild", "backupFailed", <<>>, <<>>, FALSE, <<>>)
                /\ cycle' = "off"
                /\ UNCHANGED <<i18nFile, backupFile, backupI18nInfo, beforeRun>>
           ELSE /\ stagingDir' = TRUE
                /\ backupFile' = i18nFile
                /\ backupI18nInfo' = [set |-> TRUE, originalData |-> i18nData]
                /\ i18nFile' = WriteCleaned(i18nData, F)
                /\ beforeRun' = [active |-> analysis.resourcesToMove # <<>>,
                                 todo |-> analysis.resourcesToMove]
                /\ escaped' = (escaped \/ onBeforeBuildCatch(FALSE))
                /\ last' = Did("onBeforeBuild",
                               IF P("writeFile") \in F THEN "writeFailed" ELSE "narrowed",
                               <<>>, <<>>, FALSE, <<>>)
                /\ cycle' = IF cycle = "idle" /\ F = {}
                            THEN (IF analysis.resourcesToMove # <<>>
                                  THEN "evicting" ELSE "applied")
                            ELSE "off"
    /\ UNCHANGED <<fixed, loaded, ledgerFile, staged, assetVars, tempMovedFiles, runs,
                   restarts, atExit>>

\* a variant of Remaining in which an exception ends the loop
RemainingUntilThrow(todo, thrown) ==
    IF thrown THEN <<>> ELSE Tail(todo)

\* for (const uuid of resourcesToMove) { try { ... } catch { log } }: what is
\* left to process after the identifier at the head, whether its body threw
\* (continue and the end of the body lead here as well)
Remaining(todo, thrown) ==
    Tail(todo)

\* moveResourcesToTemp: the body of the loop, for the next identifier
EvictStep(F) ==
    /\ loaded
    /\ beforeRun.active
    /\ LET uuid == Head(beforeRun.todo)
           known == uuid \in DOMAIN assets
           info == IF known /\ <<"queryAssetInfo", uuid>> \notin F
                   THEN assetDb[uuid] ELSE "none"
           \* assetDbUrlToPath(url), else file.queryPath(uuid); then fs.existsSync
           hasPath == /\ info # "none"
                      /\ assets[uuid].file # Absent
                      /\ (info = "url" \/ <<"queryPath", uuid>> \notin F)
           copied == hasPath /\ stagingDir /\ <<"copy", uuid>> \notin F
           hasMeta == hasPath /\ assets[uuid].meta # Absent
           metaCopied == copied /\ hasMeta /\ <<"copyMeta", uuid>> \notin F
           pushed == copied /\ (hasMeta => metaCopied)
           deleted == pushed /\ info = "url" /\ <<"deleteAsset", uuid>> \notin F
           record == [uuid |-> uuid, metaPath |-> hasMeta, tempMetaPath |-> hasMeta,
                      url |-> (info = "url")]
           result == IF info = "none" THEN "noInfo"
                     ELSE IF ~hasPath THEN "noPath"
                     ELSE IF ~pushed THEN "copyFailed"
                     ELSE IF deleted THEN "deleted"
                     ELSE IF info = "url" THEN "deleteFailed"
                     ELSE "noUrl"
       IN  /\ staged' = IF copied
                        THEN [staged EXCEPT ![uuid] =
                                [file |-> assets[uuid].file,
                                 meta |-> IF metaCopied THEN assets[uuid].meta ELSE @.meta]]
                        ELSE staged
           /\ tempMovedFiles' = IF pushed THEN Append(tempMovedFiles, record)
                                ELSE tempMovedFiles
           /\ assets' = IF deleted
                        THEN [assets EXCEPT ![uuid] = [file |-> Absent, meta |-> Absent]]
                        ELSE assets
           /\ assetDb' = IF deleted THEN [assetDb EXCEPT ![uuid] = "none"] ELSE assetDb
           /\ beforeRun' = [active |-> Remaining(beforeRun.todo, hasPath /\ ~pushed) # <<>>,
                            todo |-> Remaining(beforeRun.todo, hasPath /\ ~pushed)]
           /\ escaped' = (escaped \/ moveResourcesCatch(hasPath /\ ~pushed))
           /\ last' = Did("evict", result, <<record>>, <<>>, FALSE, <<>>)
           /\ cycle' = IF cycle = "evicting" /\ F = {}
                       THEN (IF Len(beforeRun.todo) > 1 THEN "evicting" ELSE "applied")
                       ELSE "off"
    /\ faults' = faults + Cardinality(F)
    /\ UNCHANGED <<fixed, loaded, i18nFile, backupFile, ledgerFile, stagingDir,
                   targetDir, backupI18nInfo, runs, hooks, restarts,
                   atExit>>

-----------------------------------------------------------------------------
(* Restoration *)

\* a variant of restoreI18nFile that clears backupI18nInfo and writes nothing
restoreI18nFileForget(F) ==
    [live |-> i18nFile, info |-> NoBackup,
     did |-> IF backupI18nInfo.set THEN "copied" ELSE "nothing"]

\* restoreI18nFile: the live file and backupI18nInfo it leaves
restoreI18nFile(F) ==
    IF ~backupI18nInfo.set
    THEN [live |-> i18nFile, info |-> backupI18nInfo, did |-> "nothing"]
    ELSE IF backupFile.kind # "none"
    THEN IF P("copyI18n") \in F
         THEN [live |-> i18nFile, info |-> backupI18nInfo, did |-> "copyFailed"]
         ELSE [live |-> backupFile, info |-> NoBackup, did |-> "copied"]
    ELSE IF P("writeI18n") \in F
         THEN [live |-> i18nFile, info |-> NoBackup, did |-> "writeFailed"]
         ELSE [live |-> Stringify(backupI18nInfo.originalData), info |-> NoBackup,
               did |-> "written"]

\* the task of restoreMovedResources for one record, lines 308-350;
\* st = [assets, targetDir, results, calls]
restoreTask(fileInfo, F, st) ==
    LET u == fileInfo.uuid
        Fail(s, why) == [s EXCEPT !.results = Append(@, why)]
        begun == [st EXCEPT !.calls = Append(@, [call |-> "task", uuid |-> u])]
    IN  IF staged[u].file = Absent
        THEN Fail(begun, "missing")
        ELSE IF ~begun.targetDir /\ <<"mkdir", u>> \in F
        THEN Fail(begun, "mkdir")
        ELSE LET made == [begun EXCEPT !.targetDir = TRUE]
             IN  IF <<"copy", u>> \in F
                 THEN Fail(made, "copy")
                 ELSE LET main == [made EXCEPT !.assets[u].file = staged[u].file]
                      IN  IF fileInfo.tempMetaPath /\ fileInfo.metaPath
                             /\ staged[u].meta # Absent
                          THEN IF <<"copyMeta", u>> \in F
                               THEN Fail(main, "copyMeta")
                               ELSE [main EXCEPT !.assets[u].meta = staged[u].meta,
                                                 !.results = Append(@, "ok")]
                          ELSE [main EXCEPT !.results = Append(@, "ok")]

\* for (const fileInfo of batch): the tasks run one after the other
RECURSIVE ProcessBatch(_, _, _)
ProcessBatch(batch, F, st) ==
    IF batch = <<>>
    THEN st
    ELSE ProcessBatch(Tail(batch), F, restoreTask(Head(batch), F, st))

\* a variant of KeepFailed that keeps no failed record
DropFailed(fileInfo) ==
    FALSE

\* a variant of KeepFailed that keeps every failed record
KeepAlways(fileInfo) ==
    TRUE

\* whether a failed record goes back to tempMovedFiles, line 364
KeepFailed(fileInfo) ==
    staged[fileInfo.uuid].file # Absent

\* for (const result of batchResults): the records pushed back, lines 358-368
RECURSIVE PushedBack(_, _)
PushedBack(batch, results) ==
    IF batch = <<>>
    THEN <<>>
    ELSE (IF Head(results) # "ok" /\ KeepFailed(Head(batch))
          THEN <<Head(batch)>> ELSE <<>>)
         \o PushedBack(Tail(batch), Tail(results))

\* successCount of a batch
RECURSIVE Successes(_)
Successes(results) ==
    IF results = <<>>
    THEN 0
    ELSE (IF Head(results) = "ok" THEN 1 ELSE 0) + Successes(Tail(results))

\* a variant of Unresolved that protects no file
NoneUnresolved(list) ==
    {}

\* the file names cleanupTempFolder(false) keeps because a record is unresolved
Unresolved(list) ==
    {list[i].uuid : i \in 1..Len(list)}

\* a variant of RemovesAll that looks at the argument only
RemovesOnlyOnRequest(removeAll, list) ==
    removeAll

\* whether cleanupTempFolder removes the whole staging directory
RemovesAll(removeAll, list) ==
    removeAll \/ list = <<>>

\* cleanupTempFolder(removeAll) with tempMovedFiles = list:
\* the staging directory it leaves
cleanupTempFolder(removeAll, list, F) ==
    IF ~stagingDir
    THEN [dir |-> stagingDir, staged |-> staged, backup |-> backupFile, did |-> "nothing"]
    ELSE IF RemovesAll(removeAll, list)
    THEN IF P("rm") \in F
         THEN [dir |-> stagingDir, staged |-> staged, backup |-> backupFile,
               did |-> "rmFailed"]
         ELSE [dir |-> FALSE,
               staged |-> [u \in DOMAIN staged |-> [file |-> Absent, meta |-> Absent]],
               backup |-> NoFile, did |-> "removedAll"]
    ELSE [dir |-> stagingDir,
          staged |-> [u \in DOMAIN staged |->
                        IF u \notin Unresolved(list) /\ <<"unlink", u>> \notin F
                        THEN [staged[u] EXCEPT !.file = Absent]
                        ELSE staged[u]],
          backup |-> backupFile, did |-> "removedRestored"]

\* the caller of cleanupTempFolder: true for unload, false for onAfterBuild
RemoveAllArg(origin) ==
    origin = "unload"

\* whether the continuation writes failed_resources.json
WritesLedger(origin, list) ==
    origin = "onAfterBuild" /\ list # <<>>

\* The .then() continuation of restoreMovedResources(), with tempMovedFiles = list:
\* the files it leaves, and whether the promise chain ends rejected
Continuation(origin, list, F) ==
    LET clean == cleanupTempFolder(RemoveAllArg(origin), list, F)
        writes == WritesLedger(origin, list)
    IN  [ledger |-> IF writes /\ P("writeLedger") \notin F
                    THEN [exists |-> TRUE, records |-> list, path |-> failedResourcesFile]
                    ELSE ledgerFile,
         dir |-> clean.dir,
         staged |-> clean.staged,
         backup |-> clean.backup,
         escapes |-> promiseCatch(
                        \/ ledgerCatch(writes /\ P("writeLedger") \in F)
                        \/ cleanupTempFolderCatch(clean.did = "rmFailed"))]

\* a variant of HookCalls in which the hook awaits nothing first
NoCallsBefore(origin) ==
    <<>>

\* what onAfterBuild (line 548) and unload (line 582) call and await before
\* restoreMovedResources()
HookCalls(origin) ==
    <<[call |-> "restoreI18nFile", uuid |-> <<>>]>>

\* a variant of AfterBatchPc that requests the refresh whatever the count
AlwaysRefresh(queue, successCount) ==
    IF queue # <<>> THEN "pause" ELSE "refresh"

\* where restoreMovedResources is after a batch: at the pause before the next
\* batch, at the refresh request, or returned
AfterBatchPc(queue, successCount) ==
    IF queue # <<>> THEN "pause"
    ELSE IF successCount > 0 THEN "refresh"
    ELSE "returned"

\* a variant of Cleared that leaves the list as it is
NotCleared(list) ==
    list

\* tempMovedFiles = [], line 296, once the queue holds a copy of the list
Cleared(list) ==
    <<>>

\* restoreI18nFile(); restoreMovedResources().then(...).catch(...)
\* up to the point where restoreMovedResources is suspended or has returned:
\* the queue takes every record of tempMovedFiles, the first batch is processed
Restoration(origin, F) ==
    LET file == restoreI18nFile(F)
        batch == FirstBatch(tempMovedFiles)
        queue == AfterBatch(tempMovedFiles)
        done == ProcessBatch(batch, F,
                             [assets |-> assets, targetDir |-> targetDir,
                              results |-> <<>>, calls |-> HookCalls(origin)])
        kept == PushedBack(batch, done.results)
        successCount == Successes(done.results)
        pc == AfterBatchPc(queue, successCount)
        returns == pc = "returned"
        then == Continuation(origin, kept, F)
        thrown == \E i \in 1..Len(done.results) :
                     done.results[i] \in {"mkdir", "copy", "copyMeta"}
    IN  /\ i18nFile' = file.live
        /\ backupI18nInfo' = file.info
        /\ assets' = done.assets
        /\ targetDir' = done.targetDir
        /\ tempMovedFiles' = Cleared(tempMovedFiles) \o kept
        /\ last' = Did(origin, file.did, batch, done.results, returns, done.calls)
        /\ cycle' = IF cycle = "applied" /\ origin = "onAfterBuild" /\ F = {}
                    THEN (IF returns THEN "restored" ELSE "restoring")
                    ELSE "off"
        /\ IF returns
           THEN /\ F \cap AllContinuationPoints \subseteq ContinuationPoints(origin, kept)
                /\ runs' = runs
                /\ ledgerFile' = then.ledger
                /\ stagingDir' = then.dir
                /\ staged' = then.staged
                /\ backupFile' = then.backup
                /\ escaped' = (\/ escaped
                               \/ hookCatch(restoreI18nFileCatch(file.did = "copyFailed"))
                               \/ promiseCatch(restoreTaskCatch(thrown))
                               \/ then.escapes)
           ELSE /\ F \cap AllContinuationPoints = {}
                /\ runs' = Append(runs, [origin |-> origin, queue |-> queue,
                                         successCount |-> successCount,
                                         pc |-> pc])
                /\ escaped' = (\/ escaped
                               \/ hookCatch(restoreI18nFileCatch(file.did = "copyFailed"))
                               \/ promiseCatch(restoreTaskCatch(thrown)))
                /\ UNCHANGED stagingVars

\* The pause between two batches of a suspended restoreMovedResources ends
\* (line 372): the next batch is processed, its failed records are pushed to
\* tempMovedFiles as it is by then; after the last batch the function goes on
\* to the refresh request or returns, and then the continuation runs.
ResumeBatch(i, F) ==
    /\ i \in 1..Len(runs)
    /\ runs[i].pc = "pause"
    /\ LET run == runs[i]
           batch == FirstBatch(run.queue)
           queue == AfterBatch(run.queue)
           done == ProcessBatch(batch, F,
                                [assets |-> assets, targetDir |-> targetDir,
                                 results |-> <<>>, calls |-> <<>>])
           list == tempMovedFiles \o PushedBack(batch, done.results)
           successCount == run.successCount + Successes(done.results)
           pc == AfterBatchPc(queue, successCount)
           returns == pc = "returned"
           then == Continuation(run.origin, list, F)
           thrown == \E k \in 1..Len(done.results) :
                        done.results[k] \in {"mkdir", "copy", "copyMeta"}
       IN  /\ assets' = done.assets
           /\ targetDir' = done.targetDir
           /\ tempMovedFiles' = list
           /\ last' = Did("resume", run.origin, batch, done.results, returns, done.calls)
           /\ IF returns
              THEN /\ F \cap AllContinuationPoints
                        \subseteq ContinuationPoints(run.origin, list)
                   /\ runs' = SubSeq(runs, 1, i - 1) \o SubSeq(runs, i + 1, Len(runs))
                   /\ ledgerFile' = then.ledger
                   /\ stagingDir' = then.dir
                   /\ staged' = then.staged
                   /\ backupFile' = then.backup
                   /\ escaped' = (\/ escaped
                                  \/ promiseCatch(restoreTaskCatch(thrown))
                                  \/ then.escapes)
              ELSE /\ F \cap AllContinuationPoints = {}
                   /\ runs' = [runs EXCEPT ![i] = [origin |-> run.origin, queue |-> queue,
                                                   successCount |-> successCount,
                                                   pc |-> pc]]
                   /\ escaped' = (escaped \/ promiseCatch(restoreTaskCatch(thrown)))
                   /\ UNCHANGED stagingVars
    /\ faults' = faults + Cardinality(F)
    /\ cycle' = "off"
    /\ UNCHANGED <<fixed, loaded, i18nFile, assetDb, backupI18nInfo, beforeRun, hooks,
                   restarts, atExit>>

OnAfterBuild(F) ==
    /\ loaded
    /\ ~beforeRun.active
    /\ hooks < MaxHooks
    /\ hooks' = hooks + 1
    /\ faults' = faults + Cardinality(F)
    /\ Restoration("onAfterBuild", F)
    /\ UNCHANGED <<fixed, loaded, assetDb, beforeRun, restarts, atExit>>

\* unload: nothing to do unless a backup or a record is left
Unload(F) ==
    /\ loaded
    /\ hooks < MaxHooks
    /\ hooks' = hooks + 1
    /\ faults' = faults + Cardinality(F)
    /\ IF backupI18nInfo.set \/ tempMovedFiles # <<>>
       THEN Restoration("unload", F)
       ELSE /\ F = {}
            /\ last' = Did("unload", "idle", <<>>, <<>>, FALSE, <<>>)
            /\ cycle' = "off"
            /\ UNCHANGED <<i18nFile, backupI18nInfo, assets, targetDir, tempMovedFiles,
                           runs, stagingVars, escaped>>
    /\ UNCHANGED <<fixed, loaded, assetDb, beforeRun, restarts, atExit>>

\* Editor.Message.request('asset-db', 'refresh-asset', 'db://assets'):
\* the asset database takes in the files of the assets directory
Refreshed ==
    [u \in DOMAIN assets |->
        IF assets[u].file = Absent THEN "none"
        ELSE IF assetDb[u] = "none" THEN "url" ELSE assetDb[u]]

\* The refresh request of a suspended restoreMovedResources settles; the
\* function returns and the continuation runs.
FinishRefresh(i, F) ==
    /\ i \in 1..Len(runs)
    /\ runs[i].pc = "refresh"
    /\ F \cap AllContinuationPoints
          \subseteq ContinuationPoints(runs[i].origin, tempMovedFiles)
    /\ faults' = faults + Cardinality(F)
    /\ assetDb' = IF P("refresh") \in F THEN assetDb ELSE Refreshed
    /\ runs' = SubSeq(runs, 1, i - 1) \o SubSeq(runs, i + 1, Len(runs))
    /\ LET then == Continuation(runs[i].origin, tempMovedFiles, F)
       IN  /\ ledgerFile' = then.ledger
           /\ stagingDir' = then.dir
           /\ staged' = then.staged
           /\ backupFile' = then.backup
           /\ escaped' = (\/ escaped
                          \/ promiseCatch(refreshCatch(P("refresh") \in F))
                          \/ then.escapes)
    /\ last' = Did("continuation", runs[i].origin, <<>>, <<>>, TRUE, <<>>)
    /\ cycle' = IF cycle = "restoring" /\ F = {}
                THEN "restored" ELSE "off"
    /\ UNCHANGED <<fixed, loaded, i18nFile, targetDir, assets, tempMovedFiles,
                   backupI18nInfo, beforeRun, hooks, restarts, atExit>>

-----------------------------------------------------------------------------
(* Changes made from outside the pipeline *)

\* the packaging pipeline deletes the backup file
ExternalDeleteBackup ==
    /\ faults < MaxFaults
    /\ backupFile.kind # "none"
    /\ backupFile' = NoFile
    /\ faults' = faults + 1
    /\ last' = Did("external", "backup", <<>>, <<>>, FALSE, <<>>)
    /\ cycle' = "off"
    /\ UNCHANGED <<fixed, loaded, i18nFile, ledgerFile, stagingDir, staged, assetVars,
                   memoryVars, hooks, restarts, escaped, atExit>>

\* a staged file is deleted
ExternalDeleteStaged(u) ==
    /\ faults < MaxFaults
    /\ staged[u].file # Absent
    /\ staged' = [staged EXCEPT ![u].file = Absent]
    /\ faults' = faults + 1
    /\ last' = Did("external", "staged", <<>>, <<>>, FALSE, <<>>)
    /\ cycle' = "off"
    /\ UNCHANGED <<fixed, loaded, i18nFile, backupFile, ledgerFile, stagingDir,
                   assetVars, memoryVars, hooks, restarts, escaped,
                   atExit>>

\* the directory of the assets, emptied by the eviction, is removed
ExternalRemoveTargetDir ==
    /\ faults < MaxFaults
    /\ targetDir
    /\ \A u \in DOMAIN assets : assets[u].file = Absent /\ assets[u].meta = Absent
    /\ targetDir' = FALSE
    /\ faults' = faults + 1
    /\ last' = Did("external", "targetDir", <<>>, <<>>, FALSE, <<>>)
    /\ cycle' = "off"
    /\ UNCHANGED <<fixed, loaded, i18nFile, stagingVars, assets, assetDb, memoryVars,
                   hooks, restarts, escaped, atExit>>

Next ==
    \/ Load
    \/ Crash
    \/ \E F \in FaultSets(BeforePoints) : OnBeforeBuild(F)
    \/ beforeRun.active /\ \E F \in FaultSets(EvictPoints(Head(beforeRun.todo))) : EvictStep(F)
    \/ \E F \in FaultSets(RestorePoints \cup AllContinuationPoints) : OnAfterBuild(F)
    \/ \E F \in FaultSets(RestorePoints \cup AllContinuationPoints) : Unload(F)
    \/ \E i \in 1..Len(runs) :
          \E F \in FaultSets({P("refresh")} \cup AllContinuationPoints) : FinishRefresh(i, F)
    \/ ExternalDeleteBackup
    \/ \E u \in AssetIds : ExternalDeleteStaged(u)
    \/ ExternalRemoveTargetDir

Spec ==
    Init /\ [][Next]_vars

-----------------------------------------------------------------------------
(* A project with more evicted assets than one batch restores: the pause    *)
(* between two batches of restoreMovedResources is a state of this          *)
(* specification, and the hooks interleave with it.                         *)

\* how many records the queue holds beyond the first batch
MaxQueued ==
    1

BatchNames ==
    <<"R01", "R02", "R03", "R04", "R05", "R06", "R07", "R08", "R09", "R10",
      "R11", "R12", "R13">>

\* the image assets of the project, by uuid
BatchIds ==
    {<<BatchNames[k]>> : k \in 1..(batchSize + MaxQueued)}

\* every asset is the sprite of the second language only
BatchData ==
    [languages |-> <<"en", "fr">>,
     defaultLanguage |-> "en",
     items |-> [k \in 1..(batchSize + MaxQueued) |->
                  [key |-> BatchNames[k], type |-> "sprite",
                   value |-> Entry("fr", <<BatchNames[k]>>)]]
               \o <<[key |-> "title", type |-> "text",
                     value |-> Entry("en", <<"A">>) \o Entry("fr", <<"B">>)]>>]

BatchInit ==
    /\ loaded = TRUE
    /\ cfgSet = TRUE
    /\ i18nFile = [kind |-> "json", fmt |-> "raw", data |-> BatchData]
    /\ backupFile = NoFile
    /\ ledgerFile = NoLedger
    /\ stagingDir = FALSE
    /\ targetDir = TRUE
    /\ assets = [u \in BatchIds |->
                   [file |-> FileContent(u),
                    meta |-> IF u = <<BatchNames[1]>> THEN MetaContent(u) ELSE Absent]]
    /\ assetDb = [u \in BatchIds |-> "url"]
    /\ orig = [i18n |-> i18nFile, assets |-> assets]
    /\ staged = [u \in BatchIds |-> [file |-> Absent, meta |-> Absent]]
    /\ tempMovedFiles = <<>>
    /\ backupI18nInfo = NoBackup
    /\ beforeRun = [active |-> FALSE, todo |-> <<>>]
    /\ runs = <<>>
    /\ hooks = 0
    /\ restarts = 0
    /\ faults = 0
    /\ escaped = FALSE
    /\ last = Did("init", "", <<>>, <<>>, FALSE, <<>>)
    /\ cycle = "idle"
    /\ atExit = [pending |-> <<>>, ledger |-> <<>>]
    /\ PureIdle

\* one build whose eviction meets no failure and is left to finish, then the
\* restoring hooks and the suspended restorations in any order
NextBatch ==
    \/ hooks = 0 /\ OnBeforeBuild({})
    \/ EvictStep({})
    \/ \E F \in FaultSets(RestorePoints \cup AllContinuationPoints) : OnAfterBuild(F)
    \/ ~beforeRun.active
          /\ \E F \in FaultSets(RestorePoints \cup AllContinuationPoints) : Unload(F)
    \/ \E i \in 1..Len(runs) :
          \E F \in FaultSets(TaskPoints(FirstBatch(runs[i].queue))
                              \cup AllContinuationPoints) : ResumeBatch(i, F)
    \/ \E i \in 1..Len(runs) :
          \E F \in FaultSets({P("refresh")} \cup AllContinuationPoints) : FinishRefresh(i, F)

SpecBatch ==
    BatchInit /\ [][NextBatch]_vars

-----------------------------------------------------------------------------
(* Builds in which no operation fails and nothing is changed from outside.  *)
(* The builder calls onAfterBuild after every build it started; the event   *)
(* loop runs every pending eviction step, every batch whose pause is over   *)
(* and every continuation whose refresh request has settled.                *)

LiveInit ==
    Init \/ BatchInit

\* a build starts only while the bound on the hooks leaves room for its
\* onAfterBuild
NextLive ==
    \/ hooks + 1 < MaxHooks /\ OnBeforeBuild({})
    \/ EvictStep({})
    \/ OnAfterBuild({})
    \/ \E i \in 1..Len(runs) : ResumeBatch(i, {})
    \/ \E i \in 1..Len(runs) : FinishRefresh(i, {})

SpecLive ==
    /\ LiveInit
    /\ [][NextLive]_vars
    /\ WF_vars(EvictStep({}))
    /\ WF_vars(OnAfterBuild({}))
    /\ WF_vars(\E i \in 1..Len(runs) : ResumeBatch(i, {}))
    /\ WF_vars(\E i \in 1..Len(runs) : FinishRefresh(i, {}))

-----------------------------------------------------------------------------
(* The pure functions of the pipeline, applied to bounded datasets *)

MaxItems ==
    2

\* the texts an item holds for the default language and for the other language;
\* <<>> as a member stands for "no entry", <<<<>>>> for the empty string
DefaultTexts ==
    {<<>>, <<<<>>>>, <<<<"X">>>>, <<<<"A", ":", "Y">>>>}
OtherTexts ==
    {<<>>, <<<<"X">>>>, <<<<"A", ":", "X">>>>, <<<<"A", "@", "s", ":", "X">>>>}

\* the items with key k
ItemsOf(k) ==
    {[key |-> k, type |-> t,
      value |-> (IF en = <<>> THEN <<>> ELSE Entry("en", en[1]))
                \o (IF fr = <<>> THEN <<>> ELSE Entry("fr", fr[1]))] :
        t \in {"sprite", "text"}, en \in DefaultTexts, fr \in OtherTexts}

\* the item lists of n items, with keys 1..n
RECURSIVE ItemLists(_)
ItemLists(n) ==
    IF n = 0
    THEN {<<>>}
    ELSE {Append(items, item) : items \in ItemLists(n - 1), item \in ItemsOf(n)}

PureData ==
    {[languages |-> <<"en", "fr">>, defaultLanguage |-> "en", items |-> items] :
        items \in ItemLists(MaxItems)}

PureInit ==
    /\ PipelineInit
    /\ cfgSet
    /\ i18nFile.data = MkData(<<>>, <<"B">>)
    /\ assetDb[<<"B">>] = "url"
    /\ assets[<<"B">>].meta # Absent
    /\ pureData \in PureData
    /\ pureOut = [analysis |-> <<>>, once |-> <<>>, twice |-> <<>>]

\* analyzeResourceUsage(i18nData)
PureAnalyze ==
    /\ pureOut.analysis = <<>>
    /\ pureOut' = [pureOut EXCEPT !.analysis = <<analyzeResourceUsage(pureData)>>]
    /\ UNCHANGED <<loaded, cfgSet, orig, i18nFile, stagingVars, assetVars, memoryVars,
                   hooks, restarts, faults, escaped, last, cycle, atExit,
                   pureData>>

\* createCleanedData(i18nData)
PureClean ==
    /\ pureOut.once = <<>>
    /\ pureOut' = [pureOut EXCEPT !.once = <<createCleanedData(pureData)>>]
    /\ UNCHANGED <<loaded, cfgSet, orig, i18nFile, stagingVars, assetVars, memoryVars,
                   hooks, restarts, faults, escaped, last, cycle, atExit,
                   pureData>>

\* createCleanedData applied to its own result
PureCleanAgain ==
    /\ pureOut.once # <<>>
    /\ pureOut.twice = <<>>
    /\ pureOut' = [pureOut EXCEPT !.twice = <<createCleanedData(pureOut.once[1])>>]
    /\ UNCHANGED <<loaded, cfgSet, orig, i18nFile, stagingVars, assetVars, memoryVars,
                   hooks, restarts, faults, escaped, last, cycle, atExit,
                   pureData>>

NextPure ==
    \/ PureAnalyze
    \/ PureClean
    \/ PureCleanAgain

SpecPure ==
    PureInit /\ [][NextPure]_vars

-----------------------------------------------------------------------------
(* Properties of analyzeResourceUsage and createCleanedData (SpecPure) *)

\* the identifiers a value's text refers to
Refs(text) ==
    LET info == parseResourceUUIDs(text)
    IN  {info[k] : k \in DOMAIN info} \ {<<>>}

\* the entries of the value maps of the sprite items
SpriteEntries(d) ==
    UNION {{d.items[i].value[j] : j \in 1..Len(d.items[i].value)} :
             i \in {n \in 1..Len(d.items) : d.items[n].type = "sprite"}}

\* the identifiers the sprite items refer to, in the default language
\* (inDefault) or in the other languages
SpriteRefs(d, inDefault) ==
    UNION {Refs(e.text) :
             e \in {x \in SpriteEntries(d) : (x.lang = d.defaultLanguage) = inDefault}}

C8_NarrowingIdempotent ==
    pureOut.twice # <<>> => pureOut.twice = pureOut.once

\* a dataset that the first narrowing changed and that keeps both of its items
C8_Witness ==
    /\ pureOut.twice # <<>>
    /\ pureOut.once[1] # pureData
    /\ Len(pureOut.once[1].items) = 2
    /\ pureOut.twice[1].languages = <<"en">>

-----------------------------------------------------------------------------
(* Properties of the build hooks (Spec) *)

\* the records of a batch whose result is one of reasons
RECURSIVE Pick(_, _, _)
Pick(batch, results, reasons) ==
    IF batch = <<>>
    THEN <<>>
    ELSE (IF Head(results) \in reasons THEN <<Head(batch)>> ELSE <<>>)
         \o Pick(Tail(batch), Tail(results), reasons)

\* the file holds a dataset with the default language only
DefaultOnly(content) ==
    /\ content.kind = "json"
    /\ content.data.defaultLanguage = orig.i18n.data.defaultLanguage
    /\ \A i \in 1..Len(content.data.languages) :
          content.data.languages[i] = content.data.defaultLanguage
    /\ \A i \in 1..Len(content.data.items) :
          \A j \in 1..Len(content.data.items[i].value) :
             content.data.items[i].value[j].lang = content.data.defaultLanguage

\* C2: when onBeforeBuild, the evictions of moveResourcesToTemp, onAfterBuild
\* and its continuation have run one after the other and no I/O operation has
\* failed, every asset file and .meta file is at its place with its original
\* content, the localization file has its original content and tempMovedFiles
\* is empty.
C2_RoundTrip ==
    cycle = "restored" =>
        /\ assets = orig.assets
        /\ i18nFile = orig.i18n
        /\ tempMovedFiles = <<>>

\* a cycle that ended with the continuation after a refresh: at least one
\* record was copied back
C2_Witness ==
    /\ cycle = "restored"
    /\ last.op = "continuation"
    /\ \A u \in AssetIds : assetDb[u] # "none"

\* C3: after a restoration in which the copy of one record failed and the
\* record went to failed_resources.json, a restoration run in a fresh process
\* (load, then the hooks) leaves no record of that ledger unrestored.
C3_FreshRunRestoresLedger ==
    (restarts > 0 /\ loaded /\ last.done) =>
        \A i \in 1..Len(atExit.ledger) :
           assets[atExit.ledger[i].uuid].file # Absent

\* C4: when the process ends after onBeforeBuild has evicted resources and
\* before they are restored, the records of the evicted resources are in the
\* persisted ledger.
C4_PendingRecordsPersisted ==
    atExit.pending # <<>> =>
        /\ ledgerFile.exists
        /\ \A i \in 1..Len(atExit.pending) :
              atExit.pending[i] \in Members(ledgerFile.records)

\* C5: when restoreI18nFile finds backupI18nInfo set and no backup file and
\* rewrites the live file from backupI18nInfo.originalData, the live file holds
\* the original dataset again.
C5_FallbackRestoresOriginal ==
    (last.op \in {"onAfterBuild", "unload"} /\ last.result = "written") =>
        i18nFile.data = orig.i18n.data

C7_BackupHoldsOriginal ==
    backupI18nInfo.set => backupI18nInfo.originalData = orig.i18n.data

\* C9: no exception leaves a hook and no rejection of the restoration's promise
\* chain is unhandled, whichever operations fail.
C9_NoEscape ==
    ~escaped

\* the backup copy of onBeforeBuild threw and the hook's catch block took it
C9_Witness ==
    /\ last.op = "onBeforeBuild"
    /\ last.result = "backupFailed"
    /\ faults = 1
    /\ ~escaped

\* C10: after restoreMovedResources has processed its records, tempMovedFiles
\* holds exactly the records that failed with their staged file still there
\* (copy error, directory-creation error); a record that succeeded and a record
\* whose staged file is missing are not in it.
C10_ListIsFailedWithStagedFile ==
    last.op \in {"onAfterBuild", "unload"} =>
        tempMovedFiles = Pick(last.batch, last.results, {"mkdir", "copy", "copyMeta"})

\* one record copied back, the copy of the other failed and it is kept
C10_Witness ==
    /\ last.op = "onAfterBuild"
    /\ last.results = <<"ok", "copy">>
    /\ Len(tempMovedFiles) = 1
    /\ tempMovedFiles[1].uuid = <<"B">>

\* C10 as stated: a record that failed for any of the three reasons, the
\* missing staged file included, is in tempMovedFiles.
C10_AsStated ==
    last.op \in {"onAfterBuild", "unload"} =>
        tempMovedFiles = Pick(last.batch, last.results,
                              {"missing", "mkdir", "copy", "copyMeta"})

\* C11: no step removes the whole staging directory while tempMovedFiles
\* still holds a record.
C11_FullRemovalOnlyWhenEmpty ==
    [][(stagingDir /\ ~stagingDir') => tempMovedFiles' = <<>>]_vars

\* C12: when a restoration run and its continuation have finished and a record
\* is unresolved, failed_resources.json holds the list of unresolved records,
\* whether onAfterBuild or unload started the run.
C12_UnresolvedAreInLedger ==
    (last.done /\ tempMovedFiles # <<>>) =>
        /\ ledgerFile.exists
        /\ ledgerFile.records = tempMovedFiles

\* C13: as long as no operation has failed and nothing was changed from
\* outside, every asset that the eviction has deleted has a record in
\* tempMovedFiles and a staged copy of its file.
C13_DeletedHasRecordAndCopy ==
    faults = 0 =>
        \A u \in AssetIds :
           (orig.assets[u].file # Absent /\ assets[u].file = Absent) =>
              /\ \E i \in 1..Len(tempMovedFiles) : tempMovedFiles[i].uuid = u
              /\ staged[u].file # Absent

\* C14: each step of the loop of moveResourcesToTemp goes on to the remaining
\* identifiers whatever happened to the current one; an identifier whose
\* query, path resolution or copy failed gets no record and is not deleted,
\* and one whose deletion failed stays in place.
C14_EvictionFailureIsolated ==
    [][last'.op = "evict" =>
          /\ beforeRun'.todo = Tail(beforeRun.todo)
          /\ beforeRun'.active = (Tail(beforeRun.todo) # <<>>)
          /\ last'.result \in {"noInfo", "noPath", "copyFailed"} =>
                /\ tempMovedFiles' = tempMovedFiles
                /\ assets' = assets
                /\ assetDb' = assetDb
          /\ last'.result = "deleteFailed" => assets' = assets]_vars

\* of the identifiers A and B, the eviction of A failed and B was evicted
\* after it
C14_Witness ==
    /\ orig.i18n.data = MkData(<<>>, <<"A", ":", "B">>)
    /\ hooks = 1
    /\ faults = 1
    /\ last.op = "evict"
    /\ last.result = "deleted"
    /\ assets[<<"A">>].file # Absent
    /\ assets[<<"B">>].file = Absent
    /\ Len(tempMovedFiles) = 1
    /\ tempMovedFiles[1].uuid = <<"B">>

\* C16: an onBeforeBuild that finds the export path unset, the localization
\* file missing or unreadable, or content without languages, defaultLanguage
\* or items changes nothing: the live file, the assets and the asset
\* database, the staging directory, backupI18nInfo and tempMovedFiles are as
\* before.
C16_EarlyReturnChangesNothing ==
    [][(/\ last'.op = "onBeforeBuild"
        /\ \/ ~cfgSet
           \/ i18nFile.kind # "json"
           \/ i18nFile.data.languages = <<>>
           \/ i18nFile.data.defaultLanguage = ""
           \/ last'.result \in {"noPath", "unreadable"})
          => UNCHANGED <<i18nFile, assetVars, stagingVars, tempMovedFiles,
                         backupI18nInfo, beforeRun>>]_vars

\* onBeforeBuild has returned on the file "{}" and nothing is set
C16_Witness ==
    /\ last.op = "onBeforeBuild"
    /\ last.result = "formatError"
    /\ i18nFile = orig.i18n
    /\ ~backupI18nInfo.set
    /\ ~stagingDir
    /\ tempMovedFiles = <<>>

-----------------------------------------------------------------------------
(* Further properties of the pure functions (SpecPure) *)

\* the identifiers of a text when it is split at the first ':' and each half
\* is cut at its '@'
IdsOfHalves(text) ==
    (IF Includes(text, ":")
     THEN {BeforeFirst(BeforeFirst(text, ":"), "@"),
           BeforeFirst(AfterFirst(text, ":"), "@")}
     ELSE {BeforeFirst(text, "@")}) \ {<<>>}

\* C19: the analyzer registers, for every value of a sprite item, the
\* identifiers of both halves of the text, each cut at its own '@': A and B
\* for 'A@s1:B@s2', A for 'A@s1'.
C19_EachHalfStripped ==
    pureOut.analysis # <<>> =>
        \A e \in SpriteEntries(pureData) :
           IdsOfHalves(e.text) \subseteq
              Members(IF e.lang = pureData.defaultLanguage
                      THEN pureOut.analysis[1].defaultResources
                      ELSE pureOut.analysis[1].nonDefaultResources)

\* the positions of the items that have a value for the default language
WithDefault(d) ==
    {i \in 1..Len(d.items) :
        \E j \in 1..Len(d.items[i].value) :
           d.items[i].value[j].lang = d.defaultLanguage}

\* C20: the dataset of createCleanedData has a key exactly for the items that
\* have a default-language value, in their original order; each keeps its type
\* and has a value map of one entry, the item's default-language value.
C20_NarrowedItems ==
    pureOut.once # <<>> =>
        LET cleaned == pureOut.once[1].items
            kept == WithDefault(pureData)
        IN  /\ Len(cleaned) = Cardinality(kept)
            /\ \A i \in kept :
                  LET item == pureData.items[i]
                      at == cleaned[Cardinality({k \in kept : k <= i})]
                  IN  /\ at.key = item.key
                      /\ at.type = item.type
                      /\ Len(at.value) = 1
                      /\ at.value[1].lang = pureData.defaultLanguage
                      /\ \E j \in 1..Len(item.value) : item.value[j] = at.value[1]

\* the first item has no default-language value and is dropped, the second
\* has values for both languages and is kept with the default one
C20_Witness ==
    /\ pureOut.once # <<>>
    /\ WithDefault(pureData) = {2}
    /\ Len(pureData.items[1].value) = 1
    /\ Len(pureData.items[2].value) = 2
    /\ Len(pureOut.once[1].items) = 1
    /\ pureOut.once[1].items[1].key = 2
    /\ pureOut.once[1].items[1].value = Entry("en", pureData.items[2].value[1].text)

-----------------------------------------------------------------------------
\* C15: in onAfterBuild and in unload, restoreI18nFile has completed before
\* the task of the first record starts: in the calls of such a step, every
\* task comes after a call of restoreI18nFile.
C15_FileRestoredBeforeRecords ==
    last.op \in {"onAfterBuild", "unload"} =>
        \A k \in 1..Len(last.calls) :
           last.calls[k].call = "task" =>
              \E j \in 1..(k - 1) : last.calls[j].call = "restoreI18nFile"

\* onAfterBuild has copied the backup over the live file and then restored the
\* one evicted asset
C15_Witness ==
    /\ last.op = "onAfterBuild"
    /\ last.result = "copied"
    /\ last.results = <<"ok">>
    /\ last.calls = <<[call |-> "restoreI18nFile", uuid |-> <<>>],
                      [call |-> "task", uuid |-> <<"B">>]>>
    /\ i18nFile = orig.i18n
    /\ assets[<<"B">>].file # Absent

-----------------------------------------------------------------------------
\* the uuids of the records of a list
UuidsOf(list) ==
    {list[k].uuid : k \in 1..Len(list)}

\* no asset has two records in the list
NoTwice(list) ==
    \A j, k \in 1..Len(list) : list[j].uuid = list[k].uuid => j = k

\* C17: restoration may be invoked again while a run is suspended or after it.
\* A record restored successfully is in no list and in no queue afterwards;
\* a record enters the list or a queue only by an eviction or from a run that
\* held it and failed on it; and no asset has a record in two places at once
\* (the list and a queue, two queues, or twice in one), so no two runs ever
\* process the same record.
C17_NoRecordProcessedTwice ==
    [][LET before == tempMovedFiles \o Queued(runs)
           after == tempMovedFiles' \o Queued(runs')
       IN  /\ NoTwice(after)
           /\ last'.op \in {"onAfterBuild", "unload", "resume"} =>
                 /\ UuidsOf(last'.batch) \subseteq UuidsOf(before)
                 /\ \A k \in 1..Len(last'.results) :
                       last'.results[k] = "ok" =>
                          last'.batch[k].uuid \notin UuidsOf(after)
           /\ UuidsOf(after) \ UuidsOf(before) # {} => last'.op = "evict"]_vars

\* unload has restored a record that failed in the first batch of onAfterBuild
\* while that run is at the pause before its second batch
C17_Witness ==
    /\ last.op = "unload"
    /\ last.results = <<"ok">>
    /\ \E i \in 1..Len(runs) :
          /\ runs[i].origin = "onAfterBuild"
          /\ runs[i].pc = "pause"
          /\ runs[i].queue # <<>>
          /\ last.batch[1].uuid \notin UuidsOf(runs[i].queue)
    /\ assets[last.batch[1].uuid].file # Absent

-----------------------------------------------------------------------------
\* the Idle state: no backup information, no record, no staging directory
Idle ==
    /\ ~backupI18nInfo.set
    /\ tempMovedFiles = <<>>
    /\ ~stagingDir

\* C18: when no operation fails and every pending step is eventually run,
\* each onAfterBuild is followed by the Idle state.
C18_CycleReachesIdle ==
    (last.op = "onAfterBuild") ~> Idle

\* the continuation of the onAfterBuild that followed an evicting build has
\* removed the staging directory
C18_Witness ==
    /\ last.op = "continuation"
    /\ last.result = "onAfterBuild"
    /\ Idle
    /\ runs = <<>>
    /\ hooks >= 2
    /\ i18nFile = orig.i18n
    /\ assets = orig.assets

-----------------------------------------------------------------------------
\* the tasks among the calls of a step
RECURSIVE TasksIn(_)
TasksIn(calls) ==
    IF calls = <<>> THEN <<>>
    ELSE (IF Head(calls).call = "task" THEN <<Head(calls).uuid>> ELSE <<>>)
         \o TasksIn(Tail(calls))

\* C21: a step of restoreMovedResources starts the tasks of one batch of at
\* most batchSize records and of no other record, every task has settled with
\* a result when the step ends, the failed records of the batch are back in
\* the list by then, and the assets of the records still queued are untouched.
C21_OneBatchAtATime ==
    [][last'.op \in {"onAfterBuild", "unload", "resume"} =>
          /\ Len(last'.batch) <= batchSize
          /\ TasksIn(last'.calls) = [k \in 1..Len(last'.batch) |-> last'.batch[k].uuid]
          /\ Len(last'.results) = Len(last'.batch)
          /\ \A k \in 1..Len(last'.batch) :
                (last'.results[k] # "ok" /\ staged[last'.batch[k].uuid].file # Absent)
                   => last'.batch[k].uuid \in UuidsOf(tempMovedFiles')
          /\ \A u \in UuidsOf(Queued(runs')) \ UuidsOf(last'.batch) :
                assets'[u] = assets[u]]_vars

\* onAfterBuild has processed a full batch, one task failed and its record is
\* back in the list, and the run is at the pause with one record queued
C21_Witness ==
    /\ last.op = "onAfterBuild"
    /\ Len(last.batch) = batchSize
    /\ \E k \in 1..Len(last.results) : last.results[k] = "copy"
    /\ Len(tempMovedFiles) = 1
    /\ \E i \in 1..Len(runs) :
          /\ runs[i].pc = "pause"
          /\ Len(runs[i].queue) = MaxQueued
          /\ \A k \in 1..Len(runs[i].queue) : assets[runs[i].queue[k].uuid].file = Absent

-----------------------------------------------------------------------------
\* C22: a run of restoreMovedResources is at its refresh request only when
\* its queue is empty and it has restored at least one record; a run that
\* returns without the request has restored none; the request settles once
\* and takes the run away; whether the request fails or not, the step leaves
\* the list as it is and no exception leaves the run.
C22_OneRefreshAfterAllBatches ==
    [][/\ \A i \in 1..Len(runs') :
             /\ runs'[i].pc \in {"pause", "refresh"}
             /\ runs'[i].pc = "refresh" <=>
                   (runs'[i].queue = <<>> /\ runs'[i].successCount > 0)
       /\ (last'.op \in {"onAfterBuild", "unload"} /\ last'.done) =>
             (Successes(last'.results) = 0 /\ runs' = runs)
       /\ (last'.op = "resume" /\ last'.done) =>
             /\ Successes(last'.results) = 0
             /\ \E i \in 1..Len(runs) :
                   /\ runs[i].pc = "pause"
                   /\ runs[i].successCount = 0
                   /\ runs' = SubSeq(runs, 1, i - 1) \o SubSeq(runs, i + 1, Len(runs))
       /\ last'.op = "continuation" =>
             /\ \E i \in 1..Len(runs) :
                   /\ runs[i].pc = "refresh"
                   /\ runs' = SubSeq(runs, 1, i - 1) \o SubSeq(runs, i + 1, Len(runs))
             /\ tempMovedFiles' = tempMovedFiles
             /\ escaped' = escaped
       /\ Len(runs') < Len(runs) => last'.op \in {"continuation", "resume"}]_vars

\* the one run of onAfterBuild has restored both batches, its refresh request
\* failed: the asset database does not know the restored files, the list is
\* empty and nothing was thrown
C22_Witness ==
    /\ last.op = "continuation"
    /\ last.result = "onAfterBuild"
    /\ hooks = 2
    /\ faults = 1
    /\ Cardinality(DOMAIN assets) > batchSize
    /\ \A u \in DOMAIN assets : assets[u].file # Absent /\ assetDb[u] = "none"
    /\ tempMovedFiles = <<>>
    /\ runs = <<>>
    /\ ~escaped

-----------------------------------------------------------------------------
\* the step runs the continuation of an onAfterBuild
AfterBuildContinuation ==
    \/ last'.op = "onAfterBuild" /\ last'.done
    \/ last'.op = "continuation" /\ last'.result = "onAfterBuild"
    \/ last'.op = "resume" /\ last'.result = "onAfterBuild" /\ last'.done

-----------------------------------------------------------------------------
\* whether list begins with the records of start
StartsWith(list, start) ==
    /\ Len(start) <= Len(list)
    /\ SubSeq(list, 1, Len(start)) = start

\* the records of a batch whose task failed while the staged file exists
RECURSIVE FailedWithStagedFile(_, _)
FailedWithStagedFile(batch, results) ==
    IF batch = <<>> THEN <<>>
    ELSE (IF Head(results) # "ok" /\ staged[Head(batch).uuid].file # Absent
          THEN <<Head(batch)>> ELSE <<>>)
         \o FailedWithStagedFile(Tail(batch), Tail(results))

\* C24: while the process lives, onAfterBuild and unload take every record of
\* the list into the queue and start with its first batch; after the step the
\* list holds the records of the batch whose task failed with the staged file
\* in place, and no other: a record whose task succeeded is gone from the
\* list, and its file is at the original path with the staged content; no
\* step other than a restoration takes a record from the list.
C24_FailedRecordRetried ==
    [][/\ last'.op \in {"onAfterBuild", "unload"} =>
             /\ last'.batch = FirstBatch(tempMovedFiles)
             /\ Len(last'.results) = Len(last'.batch)
             /\ UuidsOf(tempMovedFiles) \subseteq
                   UuidsOf(last'.batch) \cup UuidsOf(Queued(runs'))
             /\ tempMovedFiles' = FailedWithStagedFile(last'.batch, last'.results)
             /\ \A k \in 1..Len(last'.results) :
                   LET u == last'.batch[k].uuid
                   IN  last'.results[k] = "ok" =>
                          /\ assets'[u].file = staged[u].file
                          /\ assets'[u].file # Absent
       /\ last'.op \notin {"onAfterBuild", "unload", "resume", "restart"} =>
             StartsWith(tempMovedFiles', tempMovedFiles)]_vars

\* onAfterBuild failed to copy B back and wrote it to the ledger; unload has
\* retried the record with success
C24_Witness ==
    /\ last.op = "unload"
    /\ last.results = <<"ok">>
    /\ last.batch[1].uuid = <<"B">>
    /\ restarts = 0
    /\ faults = 1
    /\ ledgerFile.exists
    /\ <<"B">> \in UuidsOf(ledgerFile.records)
    /\ tempMovedFiles = <<>>
    /\ assets[<<"B">>].file = orig.assets[<<"B">>].file

-----------------------------------------------------------------------------
\* C25: the ledger failed_resources.json lies in the staging directory, the
\* directory of the backup file.
C25_LedgerInStagingDir ==
    ledgerFile.exists =>
        /\ Dirname(ledgerFile.path) = tempAssetsDir
        /\ Dirname(ledgerFile.path) = Dirname(backupPath)

-----------------------------------------------------------------------------
\* C26: whenever a step of the eviction has just deleted a live asset, the
\* live localization file holds the narrowed content of the data the build
\* started from.
C26_EvictedOnlyWhenNarrowed ==
    (last.op = "evict" /\ last.result = "deleted") =>
        /\ i18nFile.kind = "json"
        /\ i18nFile.data = createCleanedData(backupI18nInfo.originalData)

-----------------------------------------------------------------------------
\* C27: when onAfterBuild or unload clears backupI18nInfo, the live
\* localization file holds the content the project started with.
C27_ClearedOnlyWhenRestored ==
    [][(/\ last'.op \in {"onAfterBuild", "unload"}
        /\ backupI18nInfo.set
        /\ ~backupI18nInfo'.set)
          => (i18nFile'.kind = "json" /\ i18nFile'.data = orig.i18n.data)]_vars

-----------------------------------------------------------------------------
\* every asset of the project is at its original path, or has its staged
\* file and a record in the list or in the queue of a suspended restoration
NothingLost ==
    \A u \in DOMAIN assets :
       orig.assets[u].file # Absent =>
          \/ assets[u].file # Absent
          \/ /\ staged[u].file # Absent
             /\ u \in UuidsOf(tempMovedFiles \o Queued(runs))

\* C28: a step of unload or of its continuation, also one taken while the
\* restoration of onAfterBuild is suspended, loses no evicted asset.
C28_UnloadLosesNothing ==
    [][(/\ \/ last'.op = "unload"
           \/ last'.op \in {"continuation", "resume"} /\ last'.result = "unload"
        /\ NothingLost)
          => NothingLost']_vars

-----------------------------------------------------------------------------
\* C29: when a continuation of onAfterBuild has run, failed_resources.json
\* lists records exactly if the list in memory is not empty, and then it
\* lists the records of that list.
C29_LedgerReflectsList ==
    [][AfterBuildContinuation =>
          /\ (ledgerFile'.exists /\ ledgerFile'.records # <<>>) <=> tempMovedFiles' # <<>>
          /\ ledgerFile'.exists /\ ledgerFile'.records # <<>>
                => ledgerFile'.records = tempMovedFiles']_vars

-----------------------------------------------------------------------------
\* C30: no step of onAfterBuild, of unload or of their continuations removes
\* the backup file and leaves backupI18nInfo set.
C30_BackupKeptWhileInfoSet ==
    [][(/\ last'.op \in {"onAfterBuild", "unload", "continuation", "resume"}
        /\ backupFile.kind # "none"
        /\ backupI18nInfo'.set)
          => backupFile'.kind # "none"]_vars

====
